---- MODULE Spec2Model ----
(***************************************************************************)
(* Mind map application: the tree store (useMindMapData), the App          *)
(* component's selection / expansion / drill-path state machine, the       *)
(* Sidebar edit session and the part of the layout that decides which      *)
(* nodes are on screen (and so can be clicked).                            *)
(*                                                                         *)
(* Conventions                                                             *)
(*   - a JS string is a sequence of one-character strings;                 *)
(*   - a nullable value is a sequence of length 0 (null) or 1;             *)
(*   - a node is a record id/title/summary/description/metadata/children,  *)
(*     children being the ordered sequence of child nodes.  A missing      *)
(*     `children` property behaves like an empty array in every function   *)
(*     modelled here, so tree nodes always carry the field;                *)
(*   - one action is one event handler together with the React effects     *)
(*     that run in the commit it causes.                                   *)
(***************************************************************************)
EXTENDS Integers, Sequences, FiniteSets, TLC

VARIABLES
    data,           \* useMindMapData: the tree, null until loaded
    loading,        \* useMindMapData: loading flag
    error,          \* useMindMapData: error message present
    selectedNode,   \* App: selected node object or null
    expandedNodes,  \* App: set of expanded node ids
    drillPath,      \* App: sequence of node ids
    editingField,   \* Sidebar: field under edit, null when none
    editValue,      \* Sidebar: text of the edit input
    lsData,         \* localStorage['mindmap-data']
    lsSelected,     \* localStorage['mindmap-selected-node']
    now,            \* Date.now()
    edits,          \* number of edits committed so far (bounds the model)
    thrown,         \* the last handler ended with an uncaught exception
    mounted         \* the React root still renders App

vars == <<data, loading, error, selectedNode, expandedNodes, drillPath,
          editingField, editValue, lsData, lsSelected, now, edits, thrown,
          mounted>>

(***************************************************************************)
(* Bounds of the model                                                     *)
(***************************************************************************)
MaxNodes == 3
MaxClock == 1
MaxDrill == 2
MaxEdits == 1

(***************************************************************************)
(* Object helpers                                                          *)
(***************************************************************************)
\* { ...a, ...b }
Spread(a, b) ==
    [k \in (DOMAIN a) \cup (DOMAIN b) |-> IF k \in DOMAIN b THEN b[k] ELSE a[k]]

\* const { k1, k2, ...rest } = a
Omit(a, ks) == [k \in (DOMAIN a) \ ks |-> a[k]]

Range(s) == {s[i] : i \in 1..Len(s)}

RECURSIVE Flatten(_)
Flatten(ss) == IF ss = <<>> THEN <<>> ELSE Head(ss) \o Flatten(Tail(ss))

(***************************************************************************)
(* Text                                                                    *)
(***************************************************************************)
IsSpace(c) == c = " "

RECURSIVE TrimStart(_)
TrimStart(s) ==
    IF s # <<>> /\ IsSpace(Head(s)) THEN TrimStart(Tail(s)) ELSE s

RECURSIVE TrimEnd(_)
TrimEnd(s) ==
    IF s # <<>> /\ IsSpace(s[Len(s)]) THEN TrimEnd(SubSeq(s, 1, Len(s) - 1)) ELSE s

\* String.prototype.trim
Trim(s) == TrimEnd(TrimStart(s))

NotAngle(c) == c \notin {"<", ">"}

sanitizeInput(input) == Trim(SelectSeq(input, NotAngle))

(***************************************************************************)
(* The static document /mindmap-data.json                                  *)
(***************************************************************************)
EmptyMetadata == [notes |-> <<>>, inputs |-> <<>>, outputs |-> <<>>]

MkNode(id, title, children) ==
    [id |-> id, title |-> title, summary |-> <<"s">>, description |-> <<"d">>,
     metadata |-> EmptyMetadata, children |-> children]

StaticTree ==
    MkNode("root", <<"R">>,
        << MkNode("a", <<"A">>, <<>>) >>)

(***************************************************************************)
(* Tree walks                                                              *)
(***************************************************************************)
RECURSIVE findNodeById(_, _)
RECURSIVE FirstFound(_, _)
\* the for-loop over node.children: the first child subtree holding id
FirstFound(children, id) ==
    IF children = <<>> THEN <<>>
    ELSE LET found == findNodeById(Head(children), id)
         IN  IF found # <<>> THEN found ELSE FirstFound(Tail(children), id)

findNodeById(node, id) ==
    IF node.id = id THEN <<node>>
    ELSE IF "children" \in DOMAIN node THEN FirstFound(node.children, id)
    ELSE <<>>

\* a walk that stops at the children of the node it is given
getAllIds_Shallow(node) ==
    <<node.id>> \o
    (IF "children" \in DOMAIN node
     THEN [i \in 1..Len(node.children) |-> node.children[i].id]
     ELSE <<>>)

RECURSIVE getAllIds(_)
getAllIds(node) ==
    <<node.id>> \o
    (IF "children" \in DOMAIN node
     THEN Flatten([i \in 1..Len(node.children) |-> getAllIds(node.children[i])])
     ELSE <<>>)

RECURSIVE AllNodes(_)
\* every node object of the tree, in preorder
AllNodes(node) ==
    <<node>> \o Flatten([i \in 1..Len(node.children) |-> AllNodes(node.children[i])])

\* the number of nodes, which the model caps at MaxNodes
TreeSize(node) == Len(AllNodes(node))

(***************************************************************************)
(* useMindMapData: mutations                                               *)
(***************************************************************************)
RECURSIVE updateNodeRecursive(_, _, _)
updateNodeRecursive(node, nodeId, updates) ==
    IF node.id = nodeId THEN Spread(node, updates)
    ELSE IF "children" \in DOMAIN node
    THEN Spread(node, [children |->
            [i \in 1..Len(node.children) |->
                updateNodeRecursive(node.children[i], nodeId, updates)]])
    ELSE node

\* the object literal of addNode, before ...newNode
NewNodeTitle == <<"N", "e", "w", " ", "N", "o", "d", "e">>
NewNodeSummary == <<"C", "l", "i", "c", "k">>
NewNodeDescription == <<"A", "d", "d">>

NodeId(t) == "node-" \o ToString(t)

NewChild(t, newNode) ==
    Spread([id |-> NodeId(t), title |-> NewNodeTitle, summary |-> NewNodeSummary,
            description |-> NewNodeDescription, metadata |-> EmptyMetadata,
            children |-> <<>>],
           newNode)

RECURSIVE addNodeRecursive(_, _, _, _)
addNodeRecursive(node, parentId, newNode, t) ==
    IF node.id = parentId
    THEN Spread(node, [children |->
            Append(IF "children" \in DOMAIN node THEN node.children ELSE <<>>,
                   NewChild(t, newNode))])
    ELSE IF "children" \in DOMAIN node
    THEN Spread(node, [children |->
            [i \in 1..Len(node.children) |->
                addNodeRecursive(node.children[i], parentId, newNode, t)]])
    ELSE node

RECURSIVE deleteNodeRecursive(_, _)
deleteNodeRecursive(node, nodeId) ==
    IF "children" \in DOMAIN node
    THEN LET Keep(child) == child.id # nodeId
             kept == SelectSeq(node.children, Keep)
         IN  Spread(node, [children |->
                [i \in 1..Len(kept) |-> deleteNodeRecursive(kept[i], nodeId)]])
    ELSE node

\* variant that cleans the top node only
cleanDataForStorage_TopOnly(node) == Omit(node, {"parent", "siblingIndex"})

RECURSIVE cleanDataForStorage(_)
cleanDataForStorage(node) ==
    LET cleanNode == Omit(node, {"parent", "siblingIndex"})
    IN  IF "children" \in DOMAIN cleanNode
        THEN Spread(cleanNode, [children |->
                [i \in 1..Len(cleanNode.children) |->
                    cleanDataForStorage(cleanNode.children[i])]])
        ELSE cleanNode

(***************************************************************************)
(* MindMap: focus resolution and the nodes the layout puts on screen       *)
(***************************************************************************)
RECURSIVE WalkDrillPath(_, _)
\* the for-loop of getCurrentRoot
WalkDrillPath(current, path) ==
    IF path = <<>> THEN current
    ELSE LET found == findNodeById(current, Head(path))
         IN  WalkDrillPath(IF found # <<>> THEN found[1] ELSE current, Tail(path))

\* null when there is no data
getCurrentRoot(d, path) ==
    IF d = <<>> \/ Len(path) = 0 THEN d ELSE <<WalkDrillPath(d[1], path)>>

RECURSIVE layoutNode(_, _, _)
\* the objects pushed on `nodes`, in push order; coordinates are left out
layoutNode(node, level, expanded) ==
    <<Spread(node, [level |-> level, _expanded |-> node.id \in expanded])>> \o
    (IF ~("children" \in DOMAIN node) \/ node.id \notin expanded THEN <<>>
     ELSE Flatten([i \in 1..Len(node.children) |->
                      layoutNode(node.children[i], level + 1, expanded)]))

calculateLayout(rootNode, expanded) ==
    IF rootNode = <<>> THEN <<>> ELSE layoutNode(rootNode[1], 0, expanded)

(***************************************************************************)
(* JSON text, as a sequence of tokens: a member name with its colon, a     *)
(* punctuation mark, or one character of a string. An id, which the model  *)
(* keeps as one atom, is one token between its quotes.                     *)
(***************************************************************************)
KeyOrder ==
    <<"id", "title", "summary", "description", "metadata",
      "notes", "inputs", "outputs", "children", "parent", "siblingIndex">>

\* the text of a member name with its colon, one token
Name(key) == "\"" \o key \o "\":"

RECURSIVE EscapeEach(_)
EscapeEach(chars) ==
    IF chars = <<>> THEN <<>>
    ELSE (IF Head(chars) \in {"\"", "\\"} THEN <<"\\", Head(chars)>> ELSE <<Head(chars)>>)
         \o EscapeEach(Tail(chars))

Escape(chars) ==
    IF \A i \in 1..Len(chars) : chars[i] \notin {"\"", "\\"} THEN chars
    ELSE EscapeEach(chars)

Quote(chars) == <<"\"">> \o Escape(chars) \o <<"\"">>

RECURSIVE Join(_)
Join(parts) ==
    IF parts = <<>> THEN <<>>
    ELSE IF Len(parts) = 1 THEN parts[1]
    ELSE parts[1] \o <<",">> \o Join(Tail(parts))

Strings(list) == <<"[">> \o Join([i \in 1..Len(list) |-> Quote(list[i])]) \o <<"]">>

RECURSIVE JSONstringify(_)
\* JSON.stringify of a node
JSONstringify(obj) ==
    <<"{", "\"id\":", "\"", obj.id, "\"", ",", "\"title\":">> \o Quote(obj.title)
    \o <<",", "\"summary\":">> \o Quote(obj.summary)
    \o <<",", "\"description\":">> \o Quote(obj.description)
    \o <<",", "\"metadata\":", "{", "\"notes\":">> \o Quote(obj.metadata.notes)
    \o <<",", "\"inputs\":">> \o Strings(obj.metadata.inputs)
    \o <<",", "\"outputs\":">> \o Strings(obj.metadata.outputs) \o <<"}">>
    \o (IF "children" \in DOMAIN obj
        THEN <<",", "\"children\":", "[">>
             \o Join([i \in 1..Len(obj.children) |-> JSONstringify(obj.children[i])])
             \o <<"]">>
        ELSE <<>>)
    \o (IF "parent" \in DOMAIN obj
        THEN <<",", "\"parent\":", "\"", obj.parent, "\"">> ELSE <<>>)
    \o (IF "siblingIndex" \in DOMAIN obj
        THEN <<",", "\"siblingIndex\":", ToString(obj.siblingIndex)>> ELSE <<>>)
    \o <<"}">>

RECURSIVE ParseChars(_, _, _)
RECURSIVE ParseValue(_, _)
RECURSIVE ParseElements(_, _, _)
RECURSIVE ParseMembers(_, _, _)
\* each parser reads text from position i and yields <<value, next position>>
ParseChars(text, i, acc) ==
    IF text[i] = "\"" THEN <<acc, i + 1>>
    ELSE IF text[i] = "\\" THEN ParseChars(text, i + 2, Append(acc, text[i + 1]))
    ELSE ParseChars(text, i + 1, Append(acc, text[i]))

ParseValue(text, i) ==
    CASE text[i] = "\"" -> ParseChars(text, i + 1, <<>>)
      [] text[i] = "[" ->
            IF text[i + 1] = "]" THEN << <<>>, i + 2 >>
            ELSE ParseElements(text, i + 1, <<>>)
      [] text[i] = "{" ->
            IF text[i + 1] = "}" THEN << <<>>, i + 2 >>
            ELSE ParseMembers(text, i + 1, <<>>)
      [] OTHER -> <<text[i], i + 1>>

ParseElements(text, i, acc) ==
    LET element == ParseValue(text, i)
    IN  IF text[element[2]] = ","
        THEN ParseElements(text, element[2] + 1, Append(acc, element[1]))
        ELSE <<Append(acc, element[1]), element[2] + 1>>

ParseMembers(text, i, acc) ==
    LET key == CHOOSE k \in Range(KeyOrder) : Name(k) = text[i]
        member == ParseValue(text, i + 1)
        value == IF key \in {"id", "parent"} THEN member[1][1] ELSE member[1]
        obj == acc @@ (key :> value)
    IN  IF text[member[2]] = ","
        THEN ParseMembers(text, member[2] + 1, obj)
        ELSE <<obj, member[2] + 1>>

JSONparse(text) == ParseValue(text, 1)[1]

(***************************************************************************)
(* React effects                                                           *)
(***************************************************************************)
\* the object written under 'mindmap-selected-node'
cleanNode(node) ==
    [id |-> node.id, title |-> node.title, summary |-> node.summary,
     description |-> node.description, metadata |-> node.metadata]

\* auto-save effect of useMindMapData: the value of 'mindmap-data' afterwards
AutoSave(d, stored) ==
    IF d # <<>> THEN <<JSONstringify(cleanDataForStorage(d[1]))>> ELSE stored

\* selection effect of App, deps [data, selectedNode?.id]:
\* the pair <<selectedNode, 'mindmap-selected-node'>> afterwards
SelectionEffect(runs, d, sel, stored) ==
    IF runs /\ sel # <<>> /\ d # <<>>
    THEN LET updatedNode == findNodeById(d[1], sel[1].id)
         IN  IF updatedNode # <<>>
             THEN <<updatedNode, <<JSONstringify(cleanNode(updatedNode[1]))>>>>
             ELSE <<sel, stored>>
    ELSE <<sel, stored>>

SelectedId(sel) == IF sel = <<>> THEN <<>> ELSE <<sel[1].id>>

(***************************************************************************)
(* Initial state: a first visit, nothing stored, the component just mounted*)
(***************************************************************************)
Init ==
    /\ data = <<>>
    /\ loading = TRUE
    /\ error = FALSE
    /\ selectedNode = <<>>
    /\ expandedNodes = {"root"}
    /\ drillPath = <<>>
    /\ editingField = <<>>
    /\ editValue = <<>>
    /\ lsData = <<>>
    /\ lsSelected = <<>>
    /\ now = 0
    /\ edits = 0
    /\ thrown = FALSE
    /\ mounted = TRUE

\* the toolbar, the map and the sidebar are rendered
Rendered == mounted /\ ~loading /\ ~error

(***************************************************************************)
(* useMindMapData: loadData                                                *)
(***************************************************************************)
\* variant without the finally block: a failed load leaves the flag set
LoadData_NoFinally ==
    /\ mounted
    /\ loading
    /\ \E fetchOk \in BOOLEAN :
         LET savedData == lsData
             d == IF savedData # <<>> THEN <<JSONparse(savedData[1])>>
                  ELSE IF fetchOk THEN <<StaticTree>> ELSE <<>>
             eff == SelectionEffect(d # <<>>, d, selectedNode, lsSelected)
         IN  /\ data' = d
             /\ error' = (savedData = <<>> /\ ~fetchOk)
             /\ loading' = (savedData = <<>> /\ ~fetchOk)
             /\ lsData' = AutoSave(d, lsData)
             /\ selectedNode' = eff[1]
             /\ lsSelected' = eff[2]
    /\ thrown' = FALSE
    /\ UNCHANGED <<expandedNodes, drillPath, editingField, editValue, now, edits,
                   mounted>>

\* the effect that runs loadData once after mounting
LoadData ==
    /\ mounted
    /\ loading
    /\ \E fetchOk \in BOOLEAN :
         LET savedData == lsData
             d == IF savedData # <<>> THEN <<JSONparse(savedData[1])>>
                  ELSE IF fetchOk THEN <<StaticTree>> ELSE <<>>
             eff == SelectionEffect(d # <<>>, d, selectedNode, lsSelected)
         IN  /\ data' = d
             /\ error' = (savedData = <<>> /\ ~fetchOk)
             /\ loading' = FALSE
             /\ lsData' = AutoSave(d, lsData)
             /\ selectedNode' = eff[1]
             /\ lsSelected' = eff[2]
    /\ thrown' = FALSE
    /\ UNCHANGED <<expandedNodes, drillPath, editingField, editValue, now, edits,
                   mounted>>

(***************************************************************************)
(* Page (re)load: every piece of React state is rebuilt                    *)
(***************************************************************************)
Mount ==
    /\ data' = <<>>
    /\ loading' = TRUE
    /\ error' = FALSE
    /\ selectedNode' = (IF lsSelected' = <<>> THEN <<>> ELSE <<JSONparse(lsSelected'[1])>>)
    /\ expandedNodes' = {"root"}
    /\ drillPath' = <<>>
    /\ editingField' = <<>>
    /\ editValue' = <<>>
    /\ thrown' = FALSE
    /\ mounted' = TRUE
    /\ UNCHANGED <<now, edits>>

Reload ==
    /\ UNCHANGED <<lsData, lsSelected>>
    /\ Mount

\* variant that removes the tree snapshot only
handleReset_KeepSelected ==
    /\ Rendered
    /\ lsData' = <<>>
    /\ lsSelected' = lsSelected
    /\ Mount

handleReset ==
    /\ Rendered
    /\ lsData' = <<>>
    /\ lsSelected' = <<>>
    /\ Mount

(***************************************************************************)
(* App: handlers                                                           *)
(***************************************************************************)
\* a toggle that can only open
handleToggleExpand_AddOnly(prev, nodeId) == prev \cup {nodeId}

\* the updater handleToggleExpand hands to setExpandedNodes
handleToggleExpand(prev, nodeId) ==
    IF nodeId \in prev THEN prev \ {nodeId} ELSE prev \cup {nodeId}

\* state no App handler touches
SidebarIdle == UNCHANGED <<editValue, edits>>
StoreIdle == UNCHANGED <<data, loading, error, lsData, now>>

\* MindMap.handleNodeClick: App.handleNodeSelect, then App.handleToggleExpand
handleNodeClick(node) ==
    /\ Rendered
    /\ expandedNodes' = handleToggleExpand(expandedNodes, node.id)
    /\ editingField' = <<>>
    /\ thrown' = FALSE
    /\ UNCHANGED drillPath
    /\ StoreIdle /\ SidebarIdle
    /\ UNCHANGED mounted
    /\ LET eff == SelectionEffect(SelectedId(selectedNode) # <<node.id>>,
                                  data, <<node>>, <<JSONstringify(cleanNode(node))>>)
       IN  /\ selectedNode' = eff[1]
           /\ lsSelected' = eff[2]

handleExpandAll ==
    /\ Rendered
    /\ expandedNodes' = IF data = <<>> THEN expandedNodes ELSE Range(getAllIds(data[1]))
    /\ thrown' = FALSE
    /\ UNCHANGED <<selectedNode, lsSelected, drillPath, editingField>>
    /\ StoreIdle /\ SidebarIdle
    /\ UNCHANGED mounted

\* a collapse that keeps the current focus open instead of the true root
handleCollapseAll_Focus ==
    /\ Rendered
    /\ expandedNodes' = {getCurrentRoot(data, drillPath)[1].id}
    /\ thrown' = FALSE
    /\ UNCHANGED <<selectedNode, lsSelected, drillPath, editingField>>
    /\ StoreIdle /\ SidebarIdle
    /\ UNCHANGED mounted

handleCollapseAll ==
    /\ Rendered
    /\ expandedNodes' = {"root"}
    /\ thrown' = FALSE
    /\ UNCHANGED <<selectedNode, lsSelected, drillPath, editingField>>
    /\ StoreIdle /\ SidebarIdle
    /\ UNCHANGED mounted

\* selectedNode?.children?.length > 0
HasChildren(sel) ==
    /\ sel # <<>>
    /\ "children" \in DOMAIN sel[1]
    /\ Len(sel[1].children) > 0

\* a drill-down that opens the new focus without closing the rest
handleDrillDown_KeepExpansion ==
    /\ Rendered
    /\ IF HasChildren(selectedNode)
       THEN /\ Len(drillPath) < MaxDrill
            /\ drillPath' = Append(drillPath, selectedNode[1].id)
            /\ expandedNodes' = expandedNodes \cup {selectedNode[1].id}
            /\ selectedNode' = <<>>
            /\ editingField' = <<>>
       ELSE UNCHANGED <<drillPath, expandedNodes, selectedNode, editingField>>
    /\ thrown' = FALSE
    /\ UNCHANGED lsSelected
    /\ StoreIdle /\ SidebarIdle
    /\ UNCHANGED mounted

handleDrillDown ==
    /\ Rendered
    /\ IF HasChildren(selectedNode)
       THEN /\ Len(drillPath) < MaxDrill
            /\ drillPath' = Append(drillPath, selectedNode[1].id)
            /\ expandedNodes' = {selectedNode[1].id}
            /\ selectedNode' = <<>>
            /\ editingField' = <<>>
       ELSE UNCHANGED <<drillPath, expandedNodes, selectedNode, editingField>>
    /\ thrown' = FALSE
    /\ UNCHANGED lsSelected
    /\ StoreIdle /\ SidebarIdle
    /\ UNCHANGED mounted

\* a drill-up that returns to the true root in one step
handleDrillUp_ToTop ==
    /\ Rendered
    /\ IF Len(drillPath) > 0
       THEN /\ drillPath' = <<>>
            /\ selectedNode' = <<>>
            /\ editingField' = <<>>
       ELSE UNCHANGED <<drillPath, selectedNode, editingField>>
    /\ thrown' = FALSE
    /\ UNCHANGED <<expandedNodes, lsSelected>>
    /\ StoreIdle /\ SidebarIdle
    /\ UNCHANGED mounted

handleDrillUp ==
    /\ Rendered
    /\ IF Len(drillPath) > 0
       THEN /\ drillPath' = SubSeq(drillPath, 1, Len(drillPath) - 1)
            /\ selectedNode' = <<>>
            /\ editingField' = <<>>
       ELSE UNCHANGED <<drillPath, selectedNode, editingField>>
    /\ thrown' = FALSE
    /\ UNCHANGED <<expandedNodes, lsSelected>>
    /\ StoreIdle /\ SidebarIdle
    /\ UNCHANGED mounted

\* the second argument handleAddNode passes to addNode
AddNodeOverrides == [title |-> <<>>, summary |-> <<>>, description |-> <<>>]

handleAddNode ==
    /\ Rendered
    /\ IF selectedNode # <<>>
       THEN LET d == <<addNodeRecursive(data[1], selectedNode[1].id, AddNodeOverrides, now)>>
                eff == SelectionEffect(TRUE, d, selectedNode, lsSelected)
            IN  /\ TreeSize(data[1]) < MaxNodes
                /\ data' = d
                /\ lsData' = AutoSave(d, lsData)
                /\ expandedNodes' = expandedNodes \cup {selectedNode[1].id}
                /\ selectedNode' = eff[1]
                /\ lsSelected' = eff[2]
                /\ editingField' = IF findNodeById(d[1], selectedNode[1].id) # <<>>
                                   THEN <<>> ELSE editingField
       ELSE UNCHANGED <<data, lsData, expandedNodes, selectedNode, lsSelected, editingField>>
    /\ thrown' = FALSE
    /\ UNCHANGED <<loading, error, now, drillPath>>
    /\ SidebarIdle
    /\ UNCHANGED mounted

handleDeleteNode ==
    /\ Rendered
    /\ IF selectedNode = <<>>
       THEN \* selectedNode?.id !== 'root' holds, selectedNode.id then throws
            /\ thrown' = TRUE
            /\ UNCHANGED <<data, lsData, expandedNodes, selectedNode, editingField>>
       ELSE IF selectedNode[1].id # "root"
       THEN /\ data' = <<deleteNodeRecursive(data[1], selectedNode[1].id)>>
            /\ lsData' = AutoSave(data', lsData)
            /\ selectedNode' = <<>>
            /\ expandedNodes' = expandedNodes \ {selectedNode[1].id}
            /\ editingField' = <<>>
            /\ thrown' = FALSE
       ELSE /\ thrown' = FALSE
            /\ UNCHANGED <<data, lsData, expandedNodes, selectedNode, editingField>>
    /\ UNCHANGED <<loading, error, now, drillPath, lsSelected>>
    /\ SidebarIdle
    /\ UNCHANGED mounted

\* time passes between two events
Tick ==
    /\ now < MaxClock
    /\ now' = now + 1
    /\ UNCHANGED <<data, loading, error, selectedNode, expandedNodes, drillPath,
                   editingField, editValue, lsData, lsSelected, edits, thrown,
                   mounted>>

(***************************************************************************)
(* Sidebar: the edit session                                               *)
(***************************************************************************)
Fields == {"title", "summary", "description"}

\* what the user may type into the edit input
EditInputs == { <<" ">>, <<"x">>, <<"<", ">">>, <<"<", "x", ">", " ">> }

AppIdle == UNCHANGED <<expandedNodes, drillPath, loading, error, now>>

\* the field's display element is clicked; the fields exist only with a selection
handleEdit(field) ==
    /\ Rendered
    /\ selectedNode # <<>>
    /\ editingField' = <<field>>
    /\ editValue' = selectedNode[1][field]
    /\ thrown' = FALSE
    /\ UNCHANGED <<data, lsData, selectedNode, lsSelected, edits>>
    /\ AppIdle
    /\ UNCHANGED mounted

\* onChange of the edit input
setEditValue(value) ==
    /\ Rendered
    /\ editingField # <<>>
    /\ editValue' = value
    /\ thrown' = FALSE
    /\ UNCHANGED <<data, lsData, selectedNode, lsSelected, edits, editingField>>
    /\ AppIdle
    /\ UNCHANGED mounted

handleSave ==
    /\ Rendered
    /\ editingField # <<>>
    /\ IF Trim(editValue) = <<>>
       THEN UNCHANGED <<data, lsData, selectedNode, lsSelected, edits, editingField>>
       ELSE LET sanitizedValue == sanitizeInput(editValue)
                updates == [k \in {editingField[1]} |-> sanitizedValue]
                d == <<updateNodeRecursive(data[1], selectedNode[1].id, updates)>>
                eff == SelectionEffect(TRUE, d, selectedNode, lsSelected)
            IN  /\ edits < MaxEdits
                /\ edits' = edits + 1
                /\ data' = d
                /\ lsData' = AutoSave(d, lsData)
                /\ selectedNode' = eff[1]
                /\ lsSelected' = eff[2]
                /\ editingField' = <<>>
    /\ thrown' = FALSE
    /\ UNCHANGED editValue
    /\ AppIdle
    /\ UNCHANGED mounted

handleCancel ==
    /\ Rendered
    /\ editingField # <<>>
    /\ editingField' = <<>>
    /\ editValue' = <<>>
    /\ thrown' = FALSE
    /\ UNCHANGED <<data, lsData, selectedNode, lsSelected, edits>>
    /\ AppIdle
    /\ UNCHANGED mounted

(***************************************************************************)
(* The application                                                         *)
(***************************************************************************)
\* the nodes on screen
Positioned == Range(calculateLayout(getCurrentRoot(data, drillPath), expandedNodes))

\* Node's onClick hands the positioned object to handleNodeClick.  Its layout-only
\* properties are read by no handler, so the selection is kept without them.
LayoutOnly == {"level", "_expanded"}
NodeClick == \E node \in Positioned : handleNodeClick(Omit(node, LayoutOnly))
Edit == \E field \in Fields : handleEdit(field)
Typing == \E value \in EditInputs : setEditValue(value)

\* The App with the edit session idle: loading, navigation, tree mutation.
Next ==
    \/ LoadData
    \/ Reload
    \/ handleReset
    \/ NodeClick
    \/ handleExpandAll
    \/ handleCollapseAll
    \/ handleDrillDown
    \/ handleDrillUp
    \/ handleAddNode
    \/ handleDeleteNode
    \/ Tick

Spec == Init /\ [][Next]_vars

\* The edit session of the Sidebar on a loaded tree.
EditNext ==
    \/ LoadData
    \/ Reload
    \/ NodeClick
    \/ Edit
    \/ Typing
    \/ handleSave
    \/ handleCancel

SpecEdit == Init /\ [][EditNext]_vars

(***************************************************************************)
(* Properties                                                              *)
(***************************************************************************)
\* the identifiers of the nodes of a tree, by position rather than by walk
IdsOf(node) == {n.id : n \in Range(AllNodes(node))}

\* how many children a node object has; an object restored from the stored
\* selection carries no child list
NumChildren(node) == IF "children" \in DOMAIN node THEN Len(node.children) ELSE 0

\* C1: DrillDown with a selected node that has at least one child appends that
\* node's id to the end of the drill path, makes the Expansion State exactly
\* {that id} and clears the selection; with no selection, or a selected node
\* without children, drill path, Expansion State and selection stay as they are.
C1_DrillDown ==
    [][handleDrillDown =>
        IF selectedNode # <<>> /\ NumChildren(selectedNode[1]) >= 1
        THEN /\ Len(drillPath') = Len(drillPath) + 1
             /\ SubSeq(drillPath', 1, Len(drillPath)) = drillPath
             /\ drillPath'[Len(drillPath')] = selectedNode[1].id
             /\ expandedNodes' = {selectedNode[1].id}
             /\ selectedNode' = <<>>
        ELSE /\ drillPath' = drillPath
             /\ expandedNodes' = expandedNodes
             /\ selectedNode' = selectedNode]_vars

\* a drill-down into "a", which has a child, from a view in which more was open
C1_Witness ==
    /\ Rendered
    /\ drillPath = <<"a">>
    /\ expandedNodes = {"a"}
    /\ selectedNode = <<>>
    /\ findNodeById(data[1], "a") # <<>>
    /\ Len(findNodeById(data[1], "a")[1].children) >= 1

\* C2: DrillUp on a non-empty drill path removes exactly its last entry, the
\* earlier entries keeping their order, and clears the selection; on an empty
\* drill path it changes neither the drill path nor the selection.
C2_DrillUp ==
    [][handleDrillUp =>
        IF Len(drillPath) > 0
        THEN /\ Len(drillPath') = Len(drillPath) - 1
             /\ \A i \in 1..Len(drillPath') : drillPath'[i] = drillPath[i]
             /\ selectedNode' = <<>>
        ELSE /\ drillPath' = drillPath
             /\ selectedNode' = selectedNode]_vars

\* back from "a" to a focus that was itself drilled into: one entry is left
C2_Witness ==
    /\ Rendered
    /\ drillPath = <<"root">>
    /\ expandedNodes = {"a"}
    /\ selectedNode = <<>>

\* C3: Toggle(id), which a click on a positioned node issues, flips the
\* membership of id in the Expansion State and leaves the membership of every
\* other identifier as it was.
C3_Toggle ==
    [][\A node \in Positioned :
        handleNodeClick(Omit(node, LayoutOnly)) =>
            /\ (node.id \in expandedNodes') <=> (node.id \notin expandedNodes)
            /\ expandedNodes' \ {node.id} = expandedNodes \ {node.id}]_vars

\* the root was open and has been clicked shut while "a" stayed open
C3_Witness ==
    /\ Rendered
    /\ selectedNode # <<>>
    /\ selectedNode[1].id = "root"
    /\ expandedNodes = {"a"}

\* C4: after ExpandAll, also while drilled into a subtree, the Expansion State
\* is exactly the set of identifiers of all nodes of the whole tree.
C4_ExpandAll ==
    [][handleExpandAll => expandedNodes' = IdsOf(data[1])]_vars

\* everything is open in a tree three levels deep, seen from a drilled focus
C4_Witness ==
    /\ Rendered
    /\ drillPath # <<>>
    /\ getCurrentRoot(data, drillPath)[1].id # data[1].id
    /\ expandedNodes = IdsOf(data[1])
    /\ \E child \in Range(data[1].children) : child.children # <<>>

\* C5: the Expansion State starts as {true root id} on every page load, and
\* CollapseAll resets it to exactly {true root id} from any state, also while
\* drilled down.
C5_CollapseAll ==
    /\ [](loading => expandedNodes = {StaticTree.id})
    /\ [][handleCollapseAll => expandedNodes' = {data[1].id}]_vars

\* collapsed to the true root while the focus is another node
C5_Witness ==
    /\ Rendered
    /\ drillPath # <<>>
    /\ getCurrentRoot(data, drillPath)[1].id # data[1].id
    /\ expandedNodes = {data[1].id}

(***************************************************************************)
(* Tree edits stated by position, for the deletion and insertion properties*)
(***************************************************************************)
RECURSIVE WithoutNode(_, _)
RECURSIVE WithoutNodeIn(_, _)
\* the child list with the first node carrying id, in document order, cut out
\* together with its subtree
WithoutNodeIn(children, id) ==
    IF children = <<>> THEN <<>>
    ELSE IF Head(children).id = id THEN Tail(children)
    ELSE IF findNodeById(Head(children), id) # <<>>
    THEN <<WithoutNode(Head(children), id)>> \o Tail(children)
    ELSE <<Head(children)>> \o WithoutNodeIn(Tail(children), id)

\* the tree without the first node carrying id and without its descendants;
\* every other node keeps its fields, its parent and its place among its siblings
WithoutNode(node, id) ==
    [node EXCEPT !.children = WithoutNodeIn(node.children, id)]

RECURSIVE WithChild(_, _, _)
RECURSIVE WithChildIn(_, _, _)
WithChildIn(children, id, child) ==
    IF children = <<>> THEN <<>>
    ELSE IF findNodeById(Head(children), id) # <<>>
    THEN <<WithChild(Head(children), id, child)>> \o Tail(children)
    ELSE <<Head(children)>> \o WithChildIn(Tail(children), id, child)

\* the tree with child appended as the last child of the first node carrying id
WithChild(node, id, child) ==
    IF node.id = id THEN [node EXCEPT !.children = Append(node.children, child)]
    ELSE [node EXCEPT !.children = WithChildIn(node.children, id, child)]

\* the selected node, when it is a node of the tree other than the root
DeletableSelection ==
    /\ Rendered
    /\ selectedNode # <<>>
    /\ selectedNode[1].id # data[1].id
    /\ findNodeById(data[1], selectedNode[1].id) # <<>>

\* C6: deleteNode(X) for a non-root node X removes X and every descendant of X,
\* and every other node remains with the same field values, the same parent and
\* the same relative order among its siblings.
C6_DeleteCascade ==
    [][(DeletableSelection /\ handleDeleteNode) =>
        data'[1] = WithoutNode(data[1], selectedNode[1].id)]_vars

\* C7: after DeleteNode of node X the Expansion State contains neither X's id
\* nor the id of any descendant of X.
C7_DeleteClearsExpansion ==
    [][(DeletableSelection /\ handleDeleteNode) =>
        expandedNodes' \cap IdsOf(findNodeById(data[1], selectedNode[1].id)[1]) = {}]_vars

\* C8: after DeleteNode the selection is cleared and every entry of the drill
\* path still resolves to a node of the tree, none being the id of a deleted node.
C8_DeleteTruncatesDrillPath ==
    [][(DeletableSelection /\ handleDeleteNode) =>
        /\ selectedNode' = <<>>
        /\ \A i \in 1..Len(drillPath') :
              /\ drillPath'[i] \notin IdsOf(findNodeById(data[1], selectedNode[1].id)[1])
              /\ findNodeById(data'[1], drillPath'[i]) # <<>>]_vars

\* C9: whenever the application is on screen, the selected node is empty or
\* its id identifies a node of the tree and the stored selected-node snapshot
\* describes it.
C9_SelectionResolves ==
    Rendered =>
        \/ selectedNode = <<>>
        \/ /\ findNodeById(data[1], selectedNode[1].id) # <<>>
           /\ lsSelected = <<JSONstringify(cleanNode(selectedNode[1]))>>

\* C10: AddNode with a node P selected appends exactly one node as the last
\* child of P, with title "New Node", metadata with empty notes and empty
\* inputs/outputs lists and no children, every other node staying as it was;
\* AddNode without a selection leaves the tree as it was.
C10_AddNode ==
    [][handleAddNode =>
        IF selectedNode = <<>> THEN data' = data
        ELSE findNodeById(data[1], selectedNode[1].id) # <<>> =>
             LET P == findNodeById(data'[1], selectedNode[1].id)[1]
                 new == P.children[Len(P.children)]
                 expected == [id |-> new.id, title |-> NewNodeTitle,
                              summary |-> new.summary, description |-> new.description,
                              metadata |-> EmptyMetadata, children |-> <<>>]
             IN  /\ P.children # <<>>
                 /\ data'[1] = WithChild(data[1], selectedNode[1].id, expected)]_vars

(***************************************************************************)
(* Authoring: the edit session of the sidebar together with the toolbar    *)
(* commands that change the tree.                                          *)
(***************************************************************************)
AuthorNext ==
    \/ EditNext
    \/ handleAddNode
    \/ handleDeleteNode
    \/ Tick

SpecAuthor == Init /\ [][AuthorNext]_vars

(***************************************************************************)
(* Edit commits, stated without the code's string functions                *)
(***************************************************************************)
RECURSIVE WithoutAngles(_)
\* s with every "<" and every ">" left out
WithoutAngles(s) ==
    IF s = <<>> THEN <<>>
    ELSE (IF Head(s) \in {"<", ">"} THEN <<>> ELSE <<Head(s)>>) \o WithoutAngles(Tail(s))

\* v is s without its leading and its trailing whitespace
IsTrimOf(v, s) ==
    \E i \in 1..(Len(s) + 1), j \in 0..Len(s) :
        /\ v = SubSeq(s, i, j)
        /\ \A k \in 1..(i - 1) : IsSpace(s[k])
        /\ \A k \in (j + 1)..Len(s) : IsSpace(s[k])
        /\ v # <<>> => (~IsSpace(v[1]) /\ ~IsSpace(v[Len(v)]))

RECURSIVE WithField(_, _, _, _)
RECURSIVE WithFieldIn(_, _, _, _)
WithFieldIn(children, id, field, value) ==
    IF children = <<>> THEN <<>>
    ELSE IF findNodeById(Head(children), id) # <<>>
    THEN <<WithField(Head(children), id, field, value)>> \o Tail(children)
    ELSE <<Head(children)>> \o WithFieldIn(Tail(children), id, field, value)

\* the tree with the one field set to value in the first node carrying id, in
\* document order; every other field and every other node is as it was
WithField(node, id, field, value) ==
    IF node.id = id THEN [node EXCEPT ![field] = value]
    ELSE [node EXCEPT !.children = WithFieldIn(node.children, id, field, value)]

\* a commit that the sidebar accepts: the edit session closes
AcceptedCommit ==
    /\ handleSave
    /\ editingField' = <<>>

\* C11: an accepted edit commit stores, in the edited field of the selected
\* node, the input with every "<" and ">" removed and then trimmed, and
\* changes nothing else in the tree.
C11_EditCommit ==
    [][AcceptedCommit =>
        \E v \in {sanitizeInput(editValue)} \cup {<<>>} \cup {SubSeq(editValue, i, j) : i, j \in 1..Len(editValue)} :
            /\ IsTrimOf(v, WithoutAngles(editValue))
            /\ data'[1] = WithField(data[1], selectedNode[1].id, editingField[1], v)]_vars

\* C12: a commit whose input is empty once "<" and ">" are removed and the
\* rest is trimmed is a no-op: the tree is as it was and the edit session
\* stays open.
C12_EmptyCommitRejected ==
    [][(handleSave /\ IsTrimOf(<<>>, WithoutAngles(editValue))) =>
        /\ data' = data
        /\ editingField' = editingField]_vars

(***************************************************************************)
(* The tree store driven through the functions useMindMapData returns      *)
(***************************************************************************)
\* the values a caller may pass for a field
UpdateValues == { <<>>, <<"x">>, <<"\"", "<">> }

\* identifiers a caller may pass: those of the tree and one of no node
CallerIds == (IF data = <<>> THEN {} ELSE IdsOf(data[1])) \cup {"ghost"}

\* one commit of the store: the new tree, the auto-save effect and the
\* selection effect of App, which depends on the tree
StoreCommit(d) ==
    LET eff == SelectionEffect(TRUE, d, selectedNode, lsSelected)
    IN  /\ data' = d
        /\ lsData' = AutoSave(d, lsData)
        /\ selectedNode' = eff[1]
        /\ lsSelected' = eff[2]
        /\ thrown' = FALSE
        /\ UNCHANGED <<loading, error, expandedNodes, drillPath, editingField,
                       editValue, now, mounted>>

updateNode(nodeId, updates) ==
    /\ Rendered
    /\ edits < MaxEdits
    /\ edits' = edits + 1
    /\ StoreCommit(<<updateNodeRecursive(data[1], nodeId, updates)>>)

addNode(parentId, newNode) ==
    /\ Rendered
    /\ TreeSize(data[1]) < MaxNodes
    /\ StoreCommit(<<addNodeRecursive(data[1], parentId, newNode, now)>>)
    /\ UNCHANGED edits

deleteNode(nodeId) ==
    /\ Rendered
    /\ StoreCommit(<<deleteNodeRecursive(data[1], nodeId)>>)
    /\ UNCHANGED edits

UpdateNode ==
    \E nodeId \in CallerIds, field \in Fields, value \in UpdateValues :
        updateNode(nodeId, [k \in {field} |-> value])

AddNode == \E parentId \in CallerIds, newNode \in {<<>>, AddNodeOverrides} :
    addNode(parentId, newNode)

DeleteNode == \E nodeId \in CallerIds : deleteNode(nodeId)

StoreNext ==
    \/ LoadData
    \/ Reload
    \/ UpdateNode
    \/ AddNode
    \/ DeleteNode
    \/ Tick

SpecStore == Init /\ [][StoreNext]_vars

RECURSIVE Decorated(_, _, _)
\* the node with a reference to its parent and its index among its siblings
\* added at every depth
Decorated(node, parentId, index) ==
    Spread(node, [parent |-> parentId, siblingIndex |-> index,
                  children |-> [i \in 1..Len(node.children) |->
                                   Decorated(node.children[i], node.id, i - 1)]])

\* the member names that occur in the JSON text
FieldNames(text) ==
    {k \in Range(KeyOrder) : \E i \in 1..Len(text) : text[i] = Name(k)}

\* C13: whenever a tree is in memory, and so after every update, add and
\* delete, the value under 'mindmap-data' decodes to the in-memory tree and
\* names no parent or siblingIndex field; the encoding of a tree that carries
\* these two fields at every depth decodes to the tree without them.
C13_SnapshotRoundTrip ==
    data # <<>> =>
        /\ lsData # <<>>
        /\ JSONparse(lsData[1]) = data[1]
        /\ FieldNames(lsData[1]) \cap {"parent", "siblingIndex"} = {}
        /\ JSONparse(JSONstringify(cleanDataForStorage(Decorated(data[1], "", 0)))) = data[1]

\* an edited and an added node: the title of the root has been changed to a
\* text with a quote in it and a node has been added under the root
C13_Witness ==
    /\ Rendered
    /\ edits > 0
    /\ data[1].title = <<"\"", "<">>
    /\ \E i \in 1..Len(data[1].children) : data[1].children[i].id = NodeId(0)
    /\ JSONparse(lsData[1]) = data[1]

(***************************************************************************)
(* Numbers of the layout. A JavaScript number is kept in thousandths, and  *)
(* every product and quotient is rounded to the nearest thousandth, as a   *)
(* double rounds each of them to its nearest representable value.          *)
(***************************************************************************)
Unit == 1000

Fix(n) == n * Unit

\* a / b rounded to the nearest integer, for b > 0
RoundDiv(a, b) == (2 * a + b) \div (2 * b)

Mul(a, b) == RoundDiv(a * b, Unit)

\* variant that divides 1 instead of a
Div_OfOne(a, b) == RoundDiv(Unit, b)

Div(a, b) == RoundDiv(a * Unit, b)

Min(a, b) == IF a < b THEN a ELSE b

Max(a, b) == IF a > b THEN a ELSE b

\* Math.PI
PI == 3142

\* Math.sin for 0 <= a <= PI, by Bhaskara's formula on hundredths of a radian
SinHalfTurn(a) ==
    LET c == RoundDiv(a, 10)
        h == RoundDiv(PI, 10)
        p == c * (h - c)
    IN  RoundDiv(16 * Unit * p, 5 * h * h - 4 * p)

\* Math.sin and Math.cos for -PI <= a <= 3 * PI
Sin(a) ==
    IF a < 0 THEN 0 - SinHalfTurn(0 - a)
    ELSE IF a <= PI THEN SinHalfTurn(a)
    ELSE IF a <= 2 * PI THEN 0 - SinHalfTurn(a - PI)
    ELSE SinHalfTurn(a - 2 * PI)

Cos(a) == Sin(a + RoundDiv(PI, 2))

RECURSIVE Sum(_)
Sum(numbers) == IF numbers = <<>> THEN 0 ELSE Head(numbers) + Sum(Tail(numbers))

(***************************************************************************)
(* MindMap: the radial layout                                              *)
(***************************************************************************)
BASE_RADIUS == 180
LEVEL_GAP == 150
NODE_PADDING == 20
baseSizes == <<70, 55, 45, 35>>

RECURSIVE getSubtreeSize_CountAll(_, _)
\* variant that counts the whole subtree, open or closed
getSubtreeSize_CountAll(node, expanded) ==
    IF ~("children" \in DOMAIN node) THEN 1
    ELSE 1 + Sum([i \in 1..Len(node.children) |->
                     getSubtreeSize_CountAll(node.children[i], expanded)])

RECURSIVE getSubtreeSize(_, _)
getSubtreeSize(node, expanded) ==
    IF ~("children" \in DOMAIN node) \/ node.id \notin expanded THEN 1
    ELSE 1 + Sum([i \in 1..Len(node.children) |->
                     getSubtreeSize(node.children[i], expanded)])

\* layoutNode with its coordinates. The result holds the nodes and the links
\* pushed and, as a record of the recursion, the calls made: the place of the
\* node below the focus as a path of child indexes and the slice handed to it.
RECURSIVE layoutNodeAt(_, _, _, _, _, _, _, _)
RECURSIVE layoutChildren(_, _, _, _, _, _, _, _, _, _)
layoutChildren(node, i, currentAngle, level, pos, startAngle, endAngle, totalWeight, expanded, path) ==
    IF i > Len(node.children) THEN [nodes |-> <<>>, links |-> <<>>, calls |-> <<>>]
    ELSE LET child == node.children[i]
             weight == getSubtreeSize(child, expanded)
             slice == Mul(endAngle - startAngle, Div(weight, totalWeight))
             sub == layoutNodeAt(child, level + 1, pos, currentAngle,
                                 currentAngle + slice, <<node.id>>, expanded,
                                 Append(path, i))
             rest == layoutChildren(node, i + 1, currentAngle + slice, level, pos,
                                    startAngle, endAngle, totalWeight, expanded, path)
         IN  [nodes |-> sub.nodes \o rest.nodes,
              links |-> sub.links \o rest.links,
              calls |-> sub.calls \o rest.calls]

layoutNodeAt(node, level, parentPos, startAngle, endAngle, parentId, expanded, path) ==
    LET angle == RoundDiv(startAngle + endAngle, 2)
        radius == IF level = 0 THEN 0 ELSE BASE_RADIUS + level * LEVEL_GAP
        x == parentPos.x + Cos(angle) * radius
        y == parentPos.y + Sin(angle) * radius
        nodeRadius == Fix(baseSizes[Min(level, Len(baseSizes) - 1) + 1])
                      + Min(Len(node.title) * 1200, Fix(20))
        self == Spread(node, [x |-> x, y |-> y, level |-> level, radius |-> nodeRadius,
                              _expanded |-> node.id \in expanded])
        link == IF parentId # <<>>
                THEN <<[source |-> parentId[1], target |-> node.id,
                        sourcePos |-> parentPos, targetPos |-> [x |-> x, y |-> y]]>>
                ELSE <<>>
        call == [path |-> path, startAngle |-> startAngle, endAngle |-> endAngle]
        below == IF ~("children" \in DOMAIN node) \/ node.id \notin expanded
                 THEN [nodes |-> <<>>, links |-> <<>>, calls |-> <<>>]
                 ELSE LET totalWeight ==
                              Sum([i \in 1..Len(node.children) |->
                                      getSubtreeSize(node.children[i], expanded)])
                      IN  layoutChildren(node, 1, startAngle, level, [x |-> x, y |-> y],
                                         startAngle, endAngle, totalWeight, expanded, path)
    IN  [nodes |-> <<self>> \o below.nodes,
         links |-> link \o below.links,
         calls |-> <<call>> \o below.calls]

EmptyLayout == [nodes |-> <<>>, links |-> <<>>, calls |-> <<>>]

\* variant that starts one level down
calculateLayoutAt_LevelOne(rootNode, expanded) ==
    IF rootNode = <<>> THEN EmptyLayout
    ELSE layoutNodeAt(rootNode[1], 1, [x |-> 0, y |-> 0], 0, 2 * PI, <<>>, expanded, <<>>)

calculateLayoutAt(rootNode, expanded) ==
    IF rootNode = <<>> THEN EmptyLayout
    ELSE layoutNodeAt(rootNode[1], 0, [x |-> 0, y |-> 0], 0, 2 * PI, <<>>, expanded, <<>>)

\* what the map shows in the current state
Layout == calculateLayoutAt(getCurrentRoot(data, drillPath), expandedNodes)

(***************************************************************************)
(* The map on its own: a document is loaded and the user opens, closes and *)
(* drills into its nodes.                                                  *)
(***************************************************************************)
LongTitle == [i \in 1..18 |-> "t"]

Leaf(id) == MkNode(id, <<id>>, <<>>)

\* the documents: a single node, three equal children, a leaf beside a node
\* with three leaves, a chain, and children of weights 1, 4 and 1 when open
LayoutTrees ==
    { MkNode("root", LongTitle, <<>>),
      MkNode("root", <<"R">>, <<Leaf("a"), Leaf("b"), Leaf("c")>>),
      MkNode("root", <<"R">>, <<Leaf("a"), MkNode("b", <<"B">>, <<Leaf("c"), Leaf("d"), Leaf("e")>>)>>),
      MkNode("root", <<"R">>, <<MkNode("a", <<"A">>, <<MkNode("b", LongTitle, <<Leaf("c")>>)>>)>>),
      MkNode("root", <<"R">>, <<Leaf("a"), MkNode("b", <<"B">>, <<Leaf("c"), Leaf("d"), Leaf("e")>>), Leaf("f")>>) }

InitLayout ==
    /\ data \in {<<tree>> : tree \in LayoutTrees}
    /\ lsData = AutoSave(data, <<>>)
    /\ loading = FALSE
    /\ error = FALSE
    /\ selectedNode = <<>>
    /\ expandedNodes = {"root"}
    /\ drillPath = <<>>
    /\ editingField = <<>>
    /\ editValue = <<>>
    /\ lsSelected = <<>>
    /\ now = 0
    /\ edits = 0
    /\ thrown = FALSE
    /\ mounted = TRUE

LayoutNext ==
    \/ NodeClick
    \/ handleExpandAll
    \/ handleCollapseAll
    \/ handleDrillDown
    \/ handleDrillUp

SpecLayout == InitLayout /\ [][LayoutNext]_vars

(***************************************************************************)
(* Places in a tree, as paths of child indexes                             *)
(***************************************************************************)
RECURSIVE NodeAt(_, _)
NodeAt(node, path) ==
    IF path = <<>> THEN node ELSE NodeAt(node.children[Head(path)], Tail(path))

RECURSIVE PathsOf(_)
PathsOf(node) ==
    {<<>>} \cup UNION {{<<i>> \o p : p \in PathsOf(node.children[i])} :
                          i \in 1..NumChildren(node)}

\* the places reached from the top through open nodes only
Shown(node, expanded) ==
    {p \in PathsOf(node) :
        \A k \in 0..(Len(p) - 1) : NodeAt(node, SubSeq(p, 1, k)).id \in expanded}

Geometry == {"x", "y", "level", "radius", "_expanded"}

\* the layout holds exactly the places shown below the focus
Covers(focus, expanded, nodes, links, place) ==
    /\ Len(nodes) = Cardinality(Shown(focus, expanded))
    /\ {place[i] : i \in 1..Len(nodes)} = Shown(focus, expanded)
    /\ \A i \in 1..Len(nodes) :
          /\ Omit(nodes[i], Geometry) = NodeAt(focus, place[i])
          /\ nodes[i].level = Len(place[i])
          /\ (place[i] = <<>>) => (nodes[i].x = 0 /\ nodes[i].y = 0)
    /\ Len(links) = Len(nodes) - 1
    /\ \A j \in 1..Len(links) :
          LET up == SubSeq(place[j + 1], 1, Len(place[j + 1]) - 1)
              k == CHOOSE i \in 1..Len(nodes) : place[i] = up
          IN  /\ links[j].target = nodes[j + 1].id
              /\ links[j].source = NodeAt(focus, up).id
              /\ links[j].targetPos = [x |-> nodes[j + 1].x, y |-> nodes[j + 1].y]
              /\ links[j].sourcePos = [x |-> nodes[k].x, y |-> nodes[k].y]
    /\ (NumChildren(focus) = 0 \/ focus.id \notin expanded) =>
          (Len(nodes) = 1 /\ links = <<>>)

CoversLayout(focus, expanded, layout) ==
    Covers(focus, expanded, layout.nodes, layout.links,
           [i \in 1..Len(layout.calls) |-> layout.calls[i].path])

\* C14: the layout holds the focus once, at the origin and at level 0, and
\* exactly the nodes reached from the focus through open nodes, each once and
\* at the level of its distance from the focus; it holds one edge from the
\* parent to each of these nodes but the focus, with both end points, and no
\* other edge; a focus without children or a closed focus gives one node and
\* no edge.
C14_LayoutCoverage ==
    Rendered =>
        CoversLayout(getCurrentRoot(data, drillPath)[1], expandedNodes, Layout)

\* drilled into the chain: the focus is not the root, it shows its child, and
\* the child is closed and hides a child of its own
C14_Witness ==
    /\ Rendered
    /\ drillPath # <<>>
    /\ Len(Layout.nodes) = 2
    /\ Layout.nodes[1].id # data[1].id
    /\ NumChildren(Layout.nodes[2]) > 0
    /\ Len(Layout.links) = 1

\* C16: a closed node weighs exactly 1 whatever lies below it, an open node
\* weighs 1 plus the weights of its children, which is the number of nodes
\* reached from it through open nodes; so every weight is at least 1 and the
\* weights of a non-empty child list never add up to zero.
C16_SubtreeWeight ==
    Rendered =>
        \A p \in PathsOf(data[1]) :
            LET node == NodeAt(data[1], p)
                weight == getSubtreeSize(node, expandedNodes)
                below == [i \in 1..NumChildren(node) |->
                             getSubtreeSize(node.children[i], expandedNodes)]
            IN  /\ node.id \notin expandedNodes => weight = 1
                /\ node.id \in expandedNodes => weight = 1 + Sum(below)
                /\ weight = Cardinality(Shown(node, expandedNodes))
                /\ weight >= 1
                /\ NumChildren(node) > 0 => Sum(below) > 0

\* a closed root that has children weighs 1 while an open node below it
\* weighs 4
C16_Witness ==
    /\ Rendered
    /\ NumChildren(data[1]) > 0
    /\ data[1].id \notin expandedNodes
    /\ getSubtreeSize(data[1], expandedNodes) = 1
    /\ \E q \in PathsOf(data[1]) :
          /\ q # <<>>
          /\ NodeAt(data[1], q).id \in expandedNodes
          /\ getSubtreeSize(NodeAt(data[1], q), expandedNodes) = 4

(***************************************************************************)
(* The slices of the circle                                                *)
(***************************************************************************)
Abs(a) == IF a < 0 THEN 0 - a ELSE a

\* how far a slice of the span may lie from span * weight / total: half a
\* thousandth of the span for the rounded quotient, half a thousandth for the
\* rounded product
RoundingError(span) == span \div (2 * Unit) + 2

\* the call of layoutNode made for the node at the place path
CallAt(calls, path) == calls[CHOOSE i \in 1..Len(calls) : calls[i].path = path]

\* every open node of the layout that has children divides its span among
\* them in child order, leaving no gap, in proportion to their weights; the
\* slices may miss their exact size by slack rounding errors
Partitions(focus, expanded, calls, slack) ==
    \A c \in Range(calls) :
        LET node == NodeAt(focus, c.path)
            n == NumChildren(node)
            span == c.endAngle - c.startAngle
            kid == [i \in 1..n |-> CallAt(calls, Append(c.path, i))]
            weight == [i \in 1..n |-> Cardinality(Shown(node.children[i], expanded))]
            total == Sum(weight)
            err == slack * RoundingError(span)
        IN  (node.id \in expanded /\ n > 0) =>
                /\ kid[1].startAngle = c.startAngle
                /\ \A i \in 1..(n - 1) : kid[i + 1].startAngle = kid[i].endAngle
                /\ \A i \in 1..n :
                      /\ kid[i].endAngle > kid[i].startAngle
                      /\ Abs((kid[i].endAngle - kid[i].startAngle) * total - span * weight[i])
                            <= total * err
                /\ Abs(kid[n].endAngle - c.endAngle) <= n * err
                /\ (c.path = <<>>) => (span = 2 * PI)

\* C15 as stated: the slices add up to the span exactly and each slice is
\* exactly the span times the child's weight over the sum of the weights.
C15_PartitionExact ==
    Rendered =>
        Partitions(getCurrentRoot(data, drillPath)[1], expandedNodes, Layout.calls, 0)

\* C15: for every positioned open node with children the slices of the
\* children are contiguous and disjoint in child order and start at the
\* parent's start angle; each slice is the parent's span times the child's
\* weight over the sum of the weights up to rounding, and the slices add up to
\* the span (the full circle for the focus) up to one rounding error a child.
C15_Partition ==
    Rendered =>
        Partitions(getCurrentRoot(data, drillPath)[1], expandedNodes, Layout.calls, 1)

\* the focus divides the circle among children of weights 1, 4 and 1, and the
\* last slice ends beside the end of the circle
C15_Witness ==
    /\ Rendered
    /\ drillPath = <<>>
    /\ NumChildren(data[1]) = 3
    /\ [i \in 1..3 |-> getSubtreeSize(data[1].children[i], expandedNodes)] = <<1, 4, 1>>
    /\ data[1].id \in expandedNodes
    /\ CallAt(Layout.calls, <<3>>).endAngle # 2 * PI

(***************************************************************************)
(* MindMap: fit to view                                                    *)
(***************************************************************************)
SetMin(S) == CHOOSE a \in S : \A b \in S : a <= b

SetMax(S) == CHOOSE a \in S : \A b \in S : a >= b

\* the sizes of the container: the first one is the size before the first
\* measurement, the others are a phone held upright and a small panel
Viewports ==
    { [width |-> 800, height |-> 600],
      [width |-> 320, height |-> 480],
      [width |-> 120, height |-> 120] }

\* onFitView.current: the transform handed to zoom.transform, with the width
\* and the height it divides by
fitView(nodes, dimensions) ==
    LET minX == SetMin({nodes[i].x - Fix(50) : i \in 1..Len(nodes)})
        maxX == SetMax({nodes[i].x + Fix(50) : i \in 1..Len(nodes)})
        minY == SetMin({nodes[i].y - Fix(50) : i \in 1..Len(nodes)})
        maxY == SetMax({nodes[i].y + Fix(50) : i \in 1..Len(nodes)})
        width == maxX - minX
        height == maxY - minY
        centerX == RoundDiv(minX + maxX, 2)
        centerY == RoundDiv(minY + maxY, 2)
        scale == Mul(Min(Min(Div(Fix(dimensions.width), width),
                             Div(Fix(dimensions.height), height)), Fix(1)), 800)
    IN  [width |-> width, height |-> height, k |-> scale,
         x |-> RoundDiv(Fix(dimensions.width), 2) - Mul(centerX, scale),
         y |-> RoundDiv(Fix(dimensions.height), 2) - Mul(centerY, scale)]

\* the circle of the node, grown by margin, lies inside the viewport under
\* the transform
Inside(node, margin, transform, dimensions) ==
    /\ Mul(node.x - node.radius - margin, transform.k) + transform.x >= 0
    /\ Mul(node.x + node.radius + margin, transform.k) + transform.x <= Fix(dimensions.width)
    /\ Mul(node.y - node.radius - margin, transform.k) + transform.y >= 0
    /\ Mul(node.y + node.radius + margin, transform.k) + transform.y <= Fix(dimensions.height)

Fits(nodes, dimensions, transform) ==
    /\ transform.width > 0
    /\ transform.height > 0
    /\ transform.k <= Fix(1)
    /\ \A i \in 1..Len(nodes) : Inside(nodes[i], 0, transform, dimensions)

\* C17: for every layout and every viewport the scale of fit-to-view is at
\* most 1, nothing is divided by zero, and under the transform the circle of
\* every positioned node lies inside the viewport, here even without a margin
\* added to its radius.
C17_FitView ==
    Rendered =>
        \A dimensions \in Viewports :
            Fits(Layout.nodes, dimensions, fitView(Layout.nodes, dimensions))

(***************************************************************************)
(* The focus                                                               *)
(***************************************************************************)
\* the entries of the drill path that name a node of the tree
Resolvable == {i \in 1..Len(drillPath) : findNodeById(data[1], drillPath[i]) # <<>>}

C18_Witness ==
    /\ Rendered
    /\ drillPath # <<>>
    /\ findNodeById(data[1], drillPath[Len(drillPath)]) = <<>>
    /\ getCurrentRoot(data, drillPath) = data

(***************************************************************************)
(* A local storage that refuses the snapshot                               *)
(***************************************************************************)
\* One commit of the store when localStorage.setItem('mindmap-data', ...)
\* throws, e.g. QuotaExceededError.  The auto-save effect has no try/catch,
\* so the exception leaves the effect; no error boundary is rendered, and
\* React unmounts the root: the state of every component is gone.  The
\* selection effect comes after the auto-save effect and writes inside a
\* try/catch; whether it still runs, and whether its write succeeds, is
\* left open.
QuotaExceeded(d) ==
    /\ lsData' = lsData
    /\ lsSelected' \in {lsSelected,
                        SelectionEffect(TRUE, d, selectedNode, lsSelected)[2]}
    /\ thrown' = TRUE
    /\ mounted' = FALSE
    /\ data' = <<>>
    /\ loading' = FALSE
    /\ error' = FALSE
    /\ selectedNode' = <<>>
    /\ expandedNodes' = {}
    /\ drillPath' = <<>>
    /\ editingField' = <<>>
    /\ editValue' = <<>>
    /\ UNCHANGED now

\* the three mutations of the store with the snapshot refused
UpdateNodeFull ==
    \E nodeId \in CallerIds, field \in Fields, value \in UpdateValues :
        /\ Rendered
        /\ edits < MaxEdits
        /\ edits' = edits + 1
        /\ QuotaExceeded(<<updateNodeRecursive(data[1], nodeId, [k \in {field} |-> value])>>)

AddNodeFull ==
    \E parentId \in CallerIds, newNode \in {<<>>, AddNodeOverrides} :
        /\ Rendered
        /\ TreeSize(data[1]) < MaxNodes
        /\ QuotaExceeded(<<addNodeRecursive(data[1], parentId, newNode, now)>>)
        /\ UNCHANGED edits

DeleteNodeFull ==
    \E nodeId \in CallerIds :
        /\ Rendered
        /\ QuotaExceeded(<<deleteNodeRecursive(data[1], nodeId)>>)
        /\ UNCHANGED edits

QuotaNext ==
    \/ LoadData
    \/ Reload
    \/ UpdateNode
    \/ AddNode
    \/ DeleteNode
    \/ UpdateNodeFull
    \/ AddNodeFull
    \/ DeleteNodeFull
    \/ Tick

SpecQuota == Init /\ [][QuotaNext]_vars

\* the trees one mutation of the store can make of a tree
Mutations(tree) ==
    {updateNodeRecursive(tree, w[1], [k \in {w[2]} |-> w[3]]) :
        w \in CallerIds \X Fields \X UpdateValues}
    \cup {addNodeRecursive(tree, w[1], w[2], now) :
        w \in CallerIds \X {<<>>, AddNodeOverrides}}
    \cup {deleteNodeRecursive(tree, nodeId) : nodeId \in CallerIds}

\* C19: a mutation whose snapshot the local storage refuses leaves the
\* mutated tree in memory, no error state, and the application rendered, so
\* that the next command finds the tree.
C19_PersistenceFailure ==
    [][(Rendered /\ thrown') =>
            /\ Rendered'
            /\ data' # <<>>
            /\ data'[1] \in Mutations(data[1])]_vars

(***************************************************************************)
(* The initial load                                                        *)
(***************************************************************************)
\* the step of loadData that ends in its finally block
LoadCompletes == mounted /\ loading /\ loading' = FALSE

\* Once the component is mounted the effect runs loadData, and the fetch of
\* the static document settles, with a response or with an error: a load
\* that has started is completed.  Among the steps of Next those of LoadData
\* are the ones that complete a load, and LoadData is enabled exactly when
\* such a step is.
SpecLoad == Spec /\ WF_loading(LoadCompletes)

\* every command of the toolbar, the map and the sidebar
Commands ==
    \/ handleReset
    \/ NodeClick
    \/ handleExpandAll
    \/ handleCollapseAll
    \/ handleDrillDown
    \/ handleDrillUp
    \/ handleAddNode
    \/ handleDeleteNode
    \/ Edit
    \/ Typing
    \/ handleSave
    \/ handleCancel

\* the step that ends a load attempt
LoadEnds == loading /\ ~loading'

\* the three outcomes of a load attempt
FromSnapshot == lsData # <<>> /\ data' = <<JSONparse(lsData[1])>> /\ ~error'
FromStatic == lsData = <<>> /\ data' = <<StaticTree>> /\ ~error'
LoadFailure == lsData = <<>> /\ data' = <<>> /\ error'

\* C20: a load attempt ends, with the loading flag false and exactly one of
\* the tree of the stored snapshot when there is one, the static tree when
\* there is none, or the error state when the fetch fails; in the error
\* state the tree is empty, nothing but the message is rendered and no
\* command of the toolbar, the map or the sidebar is enabled.
C20_InitialLoad ==
    /\ loading ~> ~loading
    /\ [][LoadEnds => (FromSnapshot \/ FromStatic \/ LoadFailure)]_vars
    /\ [](error => ~loading /\ data = <<>> /\ ~Rendered /\ ~ENABLED Commands)
    /\ [](loading => data = <<>> /\ ~error)

\* a load without a snapshot has failed: the error state
C20_Witness ==
    /\ ~loading
    /\ error
    /\ data = <<>>
    /\ lsData = <<>>

(***************************************************************************)
(* Reset                                                                   *)
(***************************************************************************)
\* The edit session, deletion and the drill path with Reset: every edit
\* committed is counted, so a tree edited before a Reset can be told from
\* the tree of a first visit.
ResetNext ==
    \/ EditNext
    \/ handleDeleteNode
    \/ handleDrillDown
    \/ handleDrillUp
    \/ handleReset

SpecReset == Init /\ [][ResetNext]_vars

\* C21: Reset removes both keys of the local storage and reloads: the tree
\* is unloaded, the expansion state is {root}, the drill path is empty and
\* nothing is selected, whatever the state before; the load that follows
\* finds no snapshot and, unless the fetch fails, sets the static tree,
\* the expansion state, the drill path and the selection staying as they are.
C21_Reset ==
    /\ [][handleReset =>
            /\ lsData' = <<>>
            /\ lsSelected' = <<>>
            /\ loading'
            /\ data' = <<>>
            /\ expandedNodes' = {"root"}
            /\ drillPath' = <<>>
            /\ selectedNode' = <<>>
            /\ editingField' = <<>>]_vars
    /\ [][(LoadEnds /\ lsData = <<>> /\ lsSelected = <<>> /\ ~error') =>
            /\ data' = <<StaticTree>>
            /\ expandedNodes' = {"root"}
            /\ drillPath' = <<>>
            /\ selectedNode' = <<>>]_vars
    /\ [](loading => expandedNodes = {"root"} /\ drillPath = <<>> /\ data = <<>>)

\* an edit was committed, which takes a click that stores the selection, and
\* the view is that of a first visit again with nothing stored as selected
C21_Witness ==
    /\ Rendered
    /\ edits = 1
    /\ lsSelected = <<>>
    /\ data = <<StaticTree>>
    /\ expandedNodes = {"root"}
    /\ drillPath = <<>>
    /\ selectedNode = <<>>

(***************************************************************************)
(* Identifiers                                                             *)
(***************************************************************************)
\* no two nodes of the tree have the same id
UniqueIds(tree) == Cardinality(IdsOf(tree)) = TreeSize(tree)

\* C22: the static tree has unique node identifiers, and after any sequence
\* of AddNode and DeleteNode commands, however close in time, the node
\* identifiers of the tree are still unique.
C22_UniqueIds == data # <<>> => UniqueIds(data[1])

(***************************************************************************)
(* The click                                                               *)
(***************************************************************************)
\* C23: a click on a positioned node makes that node the selected node and
\* flips its membership in the expansion state, every other membership, the
\* tree and the drill path staying as they are: an open node is selected and
\* shut, a shut node is selected and opened.
C23_Click ==
    [][\A node \in Positioned :
        handleNodeClick(Omit(node, LayoutOnly)) =>
            /\ selectedNode' = <<Omit(node, LayoutOnly)>>
            /\ expandedNodes' = IF node.id \in expandedNodes
                                THEN expandedNodes \ {node.id}
                                ELSE expandedNodes \cup {node.id}
            /\ data' = data
            /\ drillPath' = drillPath]_vars

\* "a", which has a child, was shut and is now selected and open
C23_Witness ==
    /\ Rendered
    /\ selectedNode # <<>>
    /\ selectedNode[1].id = "a"
    /\ Len(selectedNode[1].children) >= 1
    /\ "a" \in expandedNodes

(***************************************************************************)
(* The guard of DeleteNode                                                 *)
(***************************************************************************)
\* C24: DeleteNode with no node selected, or with the true root selected,
\* raises no error and changes neither the tree, the expansion state, the
\* drill path nor the selection; and whatever is on screen, the tree has its
\* root.
C24_DeleteGuard ==
    /\ [][(handleDeleteNode /\ (selectedNode = <<>> \/ selectedNode[1].id = "root")) =>
            /\ ~thrown'
            /\ data' = data
            /\ expandedNodes' = expandedNodes
            /\ drillPath' = drillPath
            /\ selectedNode' = selectedNode]_vars
    /\ [](Rendered => data # <<>> /\ data[1].id = "root")

====
